---- MODULE Spec2Model ----
(***************************************************************************)
(* Conclave Eval-Light (eval.py): the evaluation runner.                   *)
(*                                                                         *)
(* Python values are modelled as follows.  A dict is a record whose DOMAIN *)
(* is its key set, so "key in d" is  key \in DOMAIN d.  A str is a TLA+    *)
(* string, a list is a sequence, None is the string PyNone.  A time is     *)
(* an integer count of hundredths of a second; where the program computes  *)
(* with times as floats, the model does the float arithmetic.              *)
(***************************************************************************)
EXTENDS Integers, Sequences, FiniteSets, TLC

VARIABLES
    OPENROUTER_API_KEY,  \* the configured API key
    entry,        \* "main": started from the CLI; "api": run_eval_suite called directly
    args,         \* arguments of the run: tasks, tier, mode, category, no_save, output
    pc,           \* position of the run
    tasks,        \* run_eval_suite local: the resolved and filtered task list
    i,            \* run_eval_suite local: 1-based index of the current task
    results,      \* run_eval_suite local: the accumulating list of EvalResults
    start_time,   \* run_single_eval local: clock value when the call started
    inflight,     \* numbers of the council calls started and not yet completed
    calls,        \* history: every council invocation made, in order
    outcomes,     \* history: how each council invocation ended
    clock,        \* datetime.now(), in hundredths of a second
    ret,          \* value returned by run_eval_suite
    raised,       \* exception that left run_eval_suite, PyNone when none
    files,        \* the file system: path -> content written
    saved,        \* history: every save_eval_results invocation, in order
    san_in,       \* sanitize_result harness: the arguments
    san_out       \* sanitize_result harness: the value returned

vars == << OPENROUTER_API_KEY, entry, args, pc, tasks, i, results,
           start_time, inflight, calls, outcomes, clock, ret, raised, files,
           saved, san_in, san_out >>

suite_vars == << OPENROUTER_API_KEY, entry, args, pc, tasks, i, results,
                 start_time, inflight, calls, outcomes, clock, ret, raised,
                 files, saved >>

-----------------------------------------------------------------------------
(* Bounds of the model *)

MaxTasks == 3     \* longest explicit task list; a longer run is a long run
MaxFaults == 1    \* most calls of a long run that end otherwise than by
                  \* returning the well-formed output
MaxModels == 2    \* most stage1 entries of a raw council output
MaxOver == 1      \* how far a text may exceed its truncation cap

-----------------------------------------------------------------------------
(* Python basics *)

PyNone == "<None>"

EmptyDict == [k \in {} |-> PyNone]

Min(a, b) == IF a <= b THEN a ELSE b

\* s[:n] for 0 <= n
Prefix(s, n) == SubSeq(s, 1, Min(Len(s), n))

\* s * n
RECURSIVE Repeat(_, _)
Repeat(s, n) ==
    IF n = 0 THEN ""
    ELSE IF n % 2 = 0 THEN LET h == Repeat(s, n \div 2) IN h \o h
    ELSE s \o Repeat(s, n - 1)

\* dict.get(key, default)
Get(d, key, default) == IF key \in DOMAIN d THEN d[key] ELSE default

\* An exception object: its class and its args tuple.
Exc(type, a) == [type |-> type, args |-> a]

\* str(e): "" without args, the argument when there is one; KeyError shows
\* the repr of its single argument.
str_exc(e) ==
    IF Len(e.args) = 0 THEN ""
    ELSE IF e.type = "KeyError" THEN "'" \o e.args[1] \o "'"
    ELSE e.args[1]

\* raise e, as the value of a function that may raise
Raise(e) == [raised |-> e]

IsRaise(v) == DOMAIN v = {"raised"}

-----------------------------------------------------------------------------
(* Python float arithmetic (IEEE 754 binary64, round-half-even), as far as   *)
(* the summary needs it.  A non-negative float is the natural number         *)
(* value * 2^(LIMB_BITS * FRAC_LIMBS), written in base 2^LIMB_BITS with the   *)
(* lowest limb first; every float the program meets here is exactly such a   *)
(* number.  An intermediate result carries a flag telling that digits        *)
(* beyond the last limb were dropped.                                        *)

MANT_BITS == 53
LIMB_BITS == 24
FRAC_LIMBS == 3
BASE == 2 ^ LIMB_BITS
FRAC_BITS == LIMB_BITS * FRAC_LIMBS

Limb(l, j) == IF j >= 1 /\ j <= Len(l) THEN l[j] ELSE 0

\* bit j (from 1, lowest first) of the number
BitAt(l, j) ==
    (Limb(l, (j - 1) \div LIMB_BITS + 1) \div (2 ^ ((j - 1) % LIMB_BITS))) % 2

RECURSIVE LimbsOfNat(_)
LimbsOfNat(n) ==
    IF n = 0 THEN << >> ELSE << n % BASE >> \o LimbsOfNat(n \div BASE)

\* the natural number written by the limbs from j up
RECURSIVE NatOfLimbs(_, _)
NatOfLimbs(l, j) ==
    IF j > Len(l) THEN 0 ELSE l[j] + BASE * NatOfLimbs(l, j + 1)

RECURSIVE AddLimbs(_, _, _, _)
AddLimbs(a, b, j, carry) ==
    IF j > Len(a) /\ j > Len(b) THEN LimbsOfNat(carry)
    ELSE LET t == Limb(a, j) + Limb(b, j) + carry
         IN  << t % BASE >> \o AddLimbs(a, b, j + 1, t \div BASE)

\* a * k for a small k
RECURSIVE MulLimbs(_, _, _, _)
MulLimbs(a, k, j, carry) ==
    IF j > Len(a) THEN LimbsOfNat(carry)
    ELSE LET t == a[j] * k + carry
         IN  << t % BASE >> \o MulLimbs(a, k, j + 1, t \div BASE)

\* floor(a / n) for a small n, from limb j down, and whether a remainder
\* is left
RECURSIVE DivLimbs(_, _, _, _)
DivLimbs(a, n, j, r) ==
    IF j = 0 THEN [limbs |-> << >>, sticky |-> r # 0]
    ELSE LET t == r * BASE + a[j]
             rest == DivLimbs(a, n, j - 1, t % n)
         IN  [limbs |-> rest.limbs \o << t \div n >>, sticky |-> rest.sticky]

\* the first j fraction limbs of r / d (r < d), and whether more follow
RECURSIVE FracLimbs(_, _, _)
FracLimbs(r, d, j) ==
    IF j = 0 THEN [limbs |-> << >>, sticky |-> r # 0]
    ELSE LET t == r * BASE
             rest == FracLimbs(t % d, d, j - 1)
         IN  [limbs |-> rest.limbs \o << t \div d >>, sticky |-> rest.sticky]

\* index of the highest non-zero limb at or below j; 0 when there is none
RECURSIVE TopLimb(_, _)
TopLimb(l, j) ==
    IF j = 0 THEN 0 ELSE IF l[j] # 0 THEN j ELSE TopLimb(l, j - 1)

\* position of the highest set bit; 0 for zero
TopBit(l) ==
    LET tl == TopLimb(l, Len(l))
    IN  IF tl = 0 THEN 0
        ELSE LIMB_BITS * (tl - 1)
             + CHOOSE k \in 1..LIMB_BITS :
                   2 ^ (k - 1) <= l[tl] /\ l[tl] < 2 ^ k

\* Round to MANT_BITS significant bits, ties to the even mantissa.
RoundToFloat(x) ==
    LET l == x.limbs
        top == TopBit(l)
        cut == top - MANT_BITS
        ql == cut \div LIMB_BITS
        qb == cut % LIMB_BITS
        below == x.sticky \/ \E j \in 1..(cut - 1) : BitAt(l, j) = 1
        up == BitAt(l, cut) = 1 /\ (below \/ BitAt(l, cut + 1) = 1)
        kept == [j \in 1..Len(l) |->
                    IF j <= ql THEN 0
                    ELSE IF j = ql + 1 THEN l[j] - (l[j] % (2 ^ qb))
                    ELSE l[j]]
        ulp == [j \in 1..(ql + 1) |-> IF j = ql + 1 THEN 2 ^ qb ELSE 0]
    IN  IF cut <= 0 THEN l
        ELSE IF up THEN AddLimbs(kept, ulp, 1, 0) ELSE kept

\* the float nearest to k / 100: what time.time() differences rounded to
\* two places are
FloatOfHundredths(k) ==
    LET f == FracLimbs(k % 100, 100, FRAC_LIMBS)
    IN  RoundToFloat([limbs |-> f.limbs \o LimbsOfNat(k \div 100),
                      sticky |-> f.sticky])

\* a + b; a sum with zero is the other operand
FloatAdd(a, b) ==
    IF Len(a) = 0 THEN b
    ELSE IF Len(b) = 0 THEN a
    ELSE RoundToFloat([limbs |-> AddLimbs(a, b, 1, 0), sticky |-> FALSE])

FloatDiv(a, n) == RoundToFloat(DivLimbs(a, n, Len(a), 0))

\* round(x, 2) of a float, in hundredths: the nearest multiple of 0.01 to
\* the float's exact value, ties to even
RoundHundredths(a) ==
    LET p == MulLimbs(a, 100, 1, 0)
        whole == NatOfLimbs(p, FRAC_LIMBS + 1)
        below == \E j \in 1..(FRAC_BITS - 1) : BitAt(p, j) = 1
        up == BitAt(p, FRAC_BITS) = 1 /\ (below \/ whole % 2 = 1)
    IN  IF up THEN whole + 1 ELSE whole

-----------------------------------------------------------------------------
(* The task catalog *)

Task(id, category, difficulty) ==
    [ id |-> id, category |-> category, difficulty |-> difficulty,
      question |-> "Q:" \o id, expected_answer |-> "A:" \o id,
      eval_criteria |-> "E:" \o id ]

\* The catalog, in declaration order.
EVAL_TASKS ==
    << Task("math_arithmetic", "math", "easy"),
       Task("math_word_problem", "math", "medium"),
       Task("code_debug", "code", "easy"),
       Task("code_explain", "code", "medium"),
       Task("reasoning_logic", "reasoning", "medium"),
       Task("reasoning_multistep", "reasoning", "hard"),
       Task("analysis_argument", "analysis", "medium"),
       Task("analysis_tradeoffs", "analysis", "medium"),
       Task("summarize_technical", "summarization", "medium"),
       Task("summarize_business", "summarization", "medium"),
       Task("writing_email", "writing_business", "easy"),
       Task("writing_proposal", "writing_business", "medium"),
       Task("writing_story_opening", "writing_creative", "medium"),
       Task("writing_metaphor", "writing_creative", "easy"),
       Task("creative_analogy", "creative", "easy"),
       Task("factual_science", "factual", "easy") >>

-----------------------------------------------------------------------------
(* CLI surface *)

TierChoices == {"premium", "standard", "budget"}

ModeChoices == {"quick", "ranked", "full"}

CategoryChoices ==
    { "math", "code", "reasoning", "analysis", "summarization",
      "writing_business", "writing_creative", "creative", "factual" }

-----------------------------------------------------------------------------
(* Result sanitizer *)

CONTENT_CAP == 2000

SYNTHESIS_CAP == 3000

\* First key a stage1 entry lacks among those the comprehension reads, in
\* the order it reads them; PyNone when the entry has both.
MissingKey(r) ==
    IF "model" \notin DOMAIN r THEN "model"
    ELSE IF "content" \notin DOMAIN r THEN "content"
    ELSE PyNone

\* variant: the "rankings" gate without its mode test
EmitsRankings_AnyMode(result, mode) == "stage2" \in DOMAIN result

\* gate of the "rankings" key
EmitsRankings(result, mode) ==
    mode \in {"ranked", "full"} /\ "stage2" \in DOMAIN result

\* gate of the "synthesis", "chairman" and "consensus" keys
EmitsSynthesis(result, mode) ==
    mode = "full" /\ "stage3" \in DOMAIN result

\* variant: the slice bound off by one, r["content"][:2001]
TruncateContent_OffByOne(content) == Prefix(content, CONTENT_CAP + 1)

\* r["content"][:2000]
TruncateContent(content) == Prefix(content, CONTENT_CAP)

\* result["stage3"].get("synthesis", "")[:3000]
TruncateSynthesis(synthesis) == Prefix(synthesis, SYNTHESIS_CAP)

sanitize_result(result, mode) ==
    LET stage1 == Get(result, "stage1", << >>)
        base == [ tier |-> Get(result, "tier", PyNone),
                  models_queried |-> Len(stage1) ]
        bad == { j \in 1..Len(stage1) : MissingKey(stage1[j]) # PyNone }
        firstBad == CHOOSE j \in bad : \A k \in bad : j <= k
        responses ==
            [ j \in 1..Len(stage1) |->
                [ model |-> stage1[j].model,
                  content |-> TruncateContent(stage1[j].content) ] ]
        s1 == IF "stage1" \in DOMAIN result
              THEN [responses |-> responses] ELSE EmptyDict
        s2 == IF EmitsRankings(result, mode)
              THEN [rankings |-> Get(result.stage2, "aggregate", EmptyDict)]
              ELSE EmptyDict
        s3 == IF EmitsSynthesis(result, mode)
              THEN [ synthesis |->
                       TruncateSynthesis(Get(result.stage3, "synthesis", "")),
                     chairman |-> Get(result.stage3, "chairman", PyNone),
                     consensus |->
                       Get(Get(result, "consensus", EmptyDict), "level", PyNone) ]
              ELSE EmptyDict
    IN  IF bad # {}
        THEN Raise(Exc("KeyError", << MissingKey(stage1[firstBad]) >>))
        ELSE base @@ s1 @@ s2 @@ s3

-----------------------------------------------------------------------------
(* The council pipeline (external collaborator) *)

\* A call of a council function ends by returning a raw output or by raising;
\* took is the wall-clock time it used, in hundredths of a second.
Returns(value, took) == [kind |-> "return", value |-> value, took |-> took]

Raises(e, took) == [kind |-> "raise", exc |-> e, took |-> took]

Stage1Sample ==
    << [model |-> "model-a", content |-> "resp-a"],
       [model |-> "model-b", content |-> "resp-b"] >>

\* The output shape each council function produces (stages by function).
CouncilOutput(fn, models) ==
    LET quick == [tier |-> models, stage1 |-> Stage1Sample]
        ranked == quick @@ [stage2 |-> [aggregate |-> [top |-> "model-a"]]]
        full == ranked @@
                [ stage3 |-> [synthesis |-> "syn", chairman |-> "model-b"],
                  consensus |-> [level |-> "strong"] ]
    IN  IF fn = "run_council_quick" THEN quick
        ELSE IF fn = "run_council_ranked" THEN ranked
        ELSE full

\* An output whose stage1 entry lacks its content.
MalformedOutput(models) ==
    [tier |-> models, stage1 |-> << [model |-> "model-a"] >>]

\* The ways one council call may end.
Outcomes(fn, models) ==
    { Returns(CouncilOutput(fn, models), 150),
      Returns(MalformedOutput(models), 20),
      Raises(Exc("RuntimeError", << "boom" >>), 75),
      Raises(Exc("TimeoutError", << >>), 3000) }

\* Classes derived from Exception among those that occur.
ExceptionClasses == {"RuntimeError", "TimeoutError", "KeyError"}

-----------------------------------------------------------------------------
(* Eval executor: run_single_eval *)

\* tier name -> model list of the configuration; unknown names fall back
CouncilModels(tier) ==
    IF tier = "premium" THEN "COUNCIL_PREMIUM"
    ELSE IF tier = "budget" THEN "COUNCIL_BUDGET"
    ELSE "COUNCIL_STANDARD"

\* variant: the ranked branch dispatching to the full pipeline
council_fn_RankedAsFull(mode) ==
    IF mode = "quick" THEN "run_council_quick" ELSE "run_council_full"

\* mode -> the council function awaited
council_fn(mode) ==
    IF mode = "quick" THEN "run_council_quick"
    ELSE IF mode = "ranked" THEN "run_council_ranked"
    ELSE "run_council_full"

\* the invocation run_single_eval makes
CouncilCall(task, tier, mode) ==
    [ fn |-> council_fn(mode), question |-> task.question,
      models |-> CouncilModels(tier) ]

SuccessResult(task, tier, mode, elapsed, sanitized) ==
    [ task_id |-> task.id, category |-> task.category,
      difficulty |-> task.difficulty, tier |-> tier, mode |-> mode,
      success |-> TRUE, elapsed_seconds |-> elapsed,
      question |-> task.question, expected |-> task.expected_answer,
      eval_criteria |-> task.eval_criteria, result |-> sanitized ]

FailureResult(task, tier, mode, elapsed, e) ==
    [ task_id |-> task.id, category |-> task.category,
      difficulty |-> task.difficulty, tier |-> tier, mode |-> mode,
      success |-> FALSE, elapsed_seconds |-> elapsed, error |-> str_exc(e) ]

\* variant: a clause that catches one class only, "except RuntimeError"
ExceptClause_Narrow(e) == e.type = "RuntimeError"

\* "except Exception": does the clause catch e
ExceptClause(e) == e.type \in ExceptionClasses

\* The part of run_single_eval after the await: the try body's remainder
\* and the except clause.  The value is an EvalResult, or Raise(e) when e
\* leaves the function.
run_single_eval(task, tier, mode, outcome, elapsed) ==
    LET body ==
            IF outcome.kind = "raise" THEN Raise(outcome.exc)
            ELSE LET sanitized == sanitize_result(outcome.value, mode)
                 IN  IF IsRaise(sanitized) THEN sanitized
                     ELSE SuccessResult(task, tier, mode, elapsed, sanitized)
    IN  IF IsRaise(body) /\ ExceptClause(body.raised)
        THEN FailureResult(task, tier, mode, elapsed, body.raised)
        ELSE body

-----------------------------------------------------------------------------
(* Suite runner: run_eval_suite *)

NoTasksArg == [given |-> FALSE]

GivenTasks(list) == [given |-> TRUE, list |-> list]

\* truthiness of the tasks argument: neither None nor an empty list
Truthy(arg) == arg.given /\ Len(arg.list) > 0

\* tasks = tasks or EVAL_TASKS
resolve_tasks(arg, catalog) == IF Truthy(arg) THEN arg.list ELSE catalog

\* if category: tasks = [t for t in tasks if t["category"] == category]
filter_by_category(ts, category) ==
    IF category # PyNone /\ category # ""
    THEN LET keep(t) == t.category = category IN SelectSeq(ts, keep)
    ELSE ts

\* variant: the empty-selection test left out
no_tasks_Never(ts) == FALSE

\* if not tasks
no_tasks(ts) == Len(ts) = 0

ErrorResult == [error |-> "No tasks match the specified criteria"]

\* variant: results.insert(0, result)
append_result_Front(rs, r) == << r >> \o rs

\* results.append(result)
append_result(rs, r) == Append(rs, r)

\* sum(r["elapsed_seconds"] for r in results): float additions, left to
\* right, of the first j results.  (This is sum() up to CPython 3.11; from
\* 3.12 on sum() compensates the rounding errors of the additions.)
RECURSIVE FloatSum(_, _)
FloatSum(rs, j) ==
    IF j = 0 THEN << >>
    ELSE FloatAdd(FloatSum(rs, j - 1),
                  FloatOfHundredths(rs[j].elapsed_seconds))

\* variant: the success filter left out of the comprehension
Successful_Unfiltered(rs) == rs

Successful(rs) == LET ok(r) == r.success IN SelectSeq(rs, ok)

summary_of(ts, rs) ==
    LET total_time == FloatSum(rs, Len(rs))
    IN  [ total_tasks |-> Len(ts),
          successful |-> Len(Successful(rs)),
          failed |-> Len(ts) - Len(Successful(rs)),
          total_time_seconds |-> RoundHundredths(total_time),
          avg_time_seconds |->
              IF Len(ts) > 0
              THEN RoundHundredths(FloatDiv(total_time, Len(ts))) ELSE 0 ]

\* the dict run_eval_suite returns after the loop
EvalRun(a, summary, rs, now, chair) ==
    [ metadata |-> [ timestamp |-> now, tier |-> a.tier, mode |-> a.mode,
                     category_filter |-> a.category, chairman |-> chair ],
      summary |-> summary,
      results |-> rs ]

-----------------------------------------------------------------------------
(* Persistence: save_eval_results *)

\* strftime("%Y%m%d_%H%M%S"): the clock cut to whole seconds
Timestamp(now) == ToString(now \div 100)

save_path(eval_data, output_dir, now) ==
    LET metadata == Get(eval_data, "metadata", EmptyDict)
        tier == Get(metadata, "tier", "unknown")
        mode == Get(metadata, "mode", "unknown")
    IN  output_dir \o "/eval_" \o tier \o "_" \o mode \o "_"
            \o Timestamp(now) \o ".json"

\* one invocation of save_eval_results: the path it returns and what it dumps
SaveRecord(eval_data, output_dir, now) ==
    [ path |-> save_path(eval_data, output_dir, now), data |-> eval_data ]

\* open(filepath, "w") and json.dump: the file system afterwards
save_eval_results(fs, eval_data, output_dir, now) ==
    LET filepath == save_path(eval_data, output_dir, now)
    IN  [ p \in DOMAIN fs \cup {filepath} |->
            IF p = filepath THEN eval_data ELSE fs[p] ]

-----------------------------------------------------------------------------
(* Inputs of a run *)

\* what get_current_chairman() may answer
Chairmen == {PyNone, "model-b"}

Reverse(sq) == [ j \in 1..Len(sq) |-> sq[Len(sq) + 1 - j] ]

\* Explicit task lists handed to run_eval_suite: the empty list and slices of
\* the catalog head in reverse order.
TaskArgs ==
    { << >> } \cup
    { Reverse(SubSeq(EVAL_TASKS, a, b)) :
        a \in 1..MaxTasks, b \in 1..(MaxTasks + 2) }

BoundedTaskArgs == { l \in TaskArgs : Len(l) <= MaxTasks }

\* Values of the configured key: unset, empty, set.
ApiKeys == {PyNone, "", "sk-or-key"}

\* if not OPENROUTER_API_KEY
no_key(key) == key = PyNone \/ key = ""

\* a tier name outside the configuration
ApiTiers == {"gold"}

\* mode strings a caller may pass: the three modes and one outside them
ApiModes == {"quick", "ranked", "full", "turbo"}

ApiRunModes == {"quick", "turbo"}

ApiCategories == {PyNone, "", "math", "code", "nonexistent"}

\* main(): parse_args, then run_eval_suite(tier, mode, category)
MainArgs ==
    [ tasks : {NoTasksArg}, tier : TierChoices, mode : ModeChoices,
      category : CategoryChoices \cup {PyNone}, no_save : BOOLEAN,
      output : {"evals"} ]

\* run_eval_suite called by an importing program
ApiArgs ==
    [ tasks : {NoTasksArg} \cup { GivenTasks(l) : l \in BoundedTaskArgs },
      tier : ApiTiers, mode : ApiRunModes, category : ApiCategories,
      no_save : {TRUE}, output : {"evals"} ]

NoValue == [unset |-> TRUE]

SanIdle == /\ san_in = NoValue
           /\ san_out = NoValue

\* main() started from the command line under any configuration of the key,
\* or run_eval_suite called directly; run_eval_suite never reads the key, and
\* its caller is taken to have one configured
Init ==
    /\ entry \in {"main", "api"}
    /\ OPENROUTER_API_KEY \in
           (IF entry = "main" THEN ApiKeys ELSE { k \in ApiKeys : ~no_key(k) })
    /\ args \in (IF entry = "main" THEN MainArgs ELSE ApiArgs)
    /\ pc = "start"
    /\ tasks = << >>
    /\ i = 0
    /\ results = << >>
    /\ start_time = 0
    /\ inflight = {}
    /\ calls = << >>
    /\ outcomes = << >>
    /\ clock = 0
    /\ ret = NoValue
    /\ raised = PyNone
    /\ files = EmptyDict
    /\ saved = << >>
    /\ SanIdle

-----------------------------------------------------------------------------
(* Steps of a run *)

\* main() without a key: the error message and sys.exit(1)
MainExitNoKey ==
    /\ pc = "start"
    /\ entry = "main"
    /\ no_key(OPENROUTER_API_KEY)
    /\ pc' = "exit1"
    /\ UNCHANGED << OPENROUTER_API_KEY, entry, args, tasks, i, results,
                    start_time, inflight, calls, outcomes, clock, ret, raised,
                    files, saved, san_in, san_out >>

\* run_eval_suite up to the loop: resolve, filter, empty-selection return
SuiteStart ==
    /\ pc = "start"
    /\ entry = "main" => ~no_key(OPENROUTER_API_KEY)
    /\ LET filtered == filter_by_category(
                           resolve_tasks(args.tasks, EVAL_TASKS), args.category)
       IN  /\ tasks' = filtered
           /\ IF no_tasks(filtered)
              THEN /\ ret' = ErrorResult
                   /\ pc' = "returned"
                   /\ i' = i
              ELSE /\ ret' = ret
                   /\ pc' = "loop"
                   /\ i' = 1
    /\ results' = << >>
    /\ UNCHANGED << OPENROUTER_API_KEY, entry, args, start_time, inflight,
                    calls, outcomes, clock, raised, files, saved, san_in,
                    san_out >>

\* variant: the call scheduled without being awaited, so that the loop goes on
LoopReady_NoAwait(p) == p \in {"loop", "awaiting"}

\* the loop body is entered only between awaits
LoopReady(p) == p = "loop"

\* loop body up to the await inside run_single_eval: the council call starts
StartCouncilCall ==
    /\ LoopReady(pc)
    /\ i <= Len(tasks)
    /\ calls' = Append(calls, CouncilCall(tasks[i], args.tier, args.mode))
    /\ inflight' = inflight \cup {Len(calls) + 1}
    /\ start_time' = clock
    /\ pc' = "awaiting"
    /\ UNCHANGED << OPENROUTER_API_KEY, entry, args, tasks, i, results,
                    outcomes, clock, ret, raised, files, saved, san_in,
                    san_out >>

\* the well-formed output of the call awaited
WellFormed(o) ==
    o.kind = "return" /\ MissingKey(o.value.stage1[1]) = PyNone

\* Every ending is considered for each call of a run over at most MaxTasks
\* tasks; a longer run has at most MaxFaults calls ending otherwise than
\* well-formed.
WithinFaultBudget(ts, os, o) ==
    \/ WellFormed(o)
    \/ Len(ts) <= MaxTasks
    \/ Cardinality({ j \in 1..Len(os) : ~WellFormed(os[j]) }) < MaxFaults

\* the awaited call ends; run_single_eval builds its EvalResult and the loop
\* appends it
CouncilCompletes ==
    /\ pc = "awaiting"
    /\ \E o \in Outcomes(council_fn(args.mode), CouncilModels(args.tier)) :
         LET now == clock + o.took
             r == run_single_eval(tasks[i], args.tier, args.mode, o,
                                  now - start_time)
         IN  /\ WithinFaultBudget(tasks, outcomes, o)
             /\ clock' = now
             /\ outcomes' = Append(outcomes, o)
             /\ inflight' = inflight \ {Len(calls)}
             /\ IF IsRaise(r)
                THEN /\ raised' = r.raised
                     /\ pc' = "raised"
                     /\ UNCHANGED << results, i >>
                ELSE /\ results' = append_result(results, r)
                     /\ i' = i + 1
                     /\ pc' = "loop"
                     /\ raised' = raised
    /\ UNCHANGED << OPENROUTER_API_KEY, entry, args, tasks, start_time,
                    calls, ret, files, saved, san_in, san_out >>

\* after the loop: summary, get_current_chairman() and the EvalRun returned
Summarize ==
    /\ pc = "loop"
    /\ i > Len(tasks)
    /\ LET summary == summary_of(tasks, results)
       IN  \E chair \in Chairmen :
              ret' = EvalRun(args, summary, results, clock, chair)
    /\ pc' = "returned"
    /\ UNCHANGED << OPENROUTER_API_KEY, entry, args, tasks, i, results,
                    start_time, inflight, calls, outcomes, clock, raised,
                    files, saved, san_in, san_out >>

\* main() after asyncio.run: print_summary, then the save unless --no-save
MainFinish ==
    /\ pc = "returned"
    /\ entry = "main"
    /\ files' = IF ~args.no_save
                THEN save_eval_results(files, ret, args.output, clock)
                ELSE files
    /\ saved' = IF ~args.no_save
                THEN Append(saved, SaveRecord(ret, args.output, clock))
                ELSE saved
    /\ pc' = "exit"
    /\ UNCHANGED << OPENROUTER_API_KEY, entry, args, tasks, i, results,
                    start_time, inflight, calls, outcomes, clock, ret, raised,
                    san_in, san_out >>

Next ==
    \/ MainExitNoKey
    \/ SuiteStart
    \/ StartCouncilCall
    \/ CouncilCompletes
    \/ Summarize
    \/ MainFinish

Spec == Init /\ [][Next]_vars

-----------------------------------------------------------------------------
(* sanitize_result on its own: raw outputs of every shape *)

\* A text of length n whose characters vary with the position.
Text(n) == Prefix(Repeat("abcdefg", n \div 7 + 1), n)

ContentLens == {0} \cup (CONTENT_CAP - 1 .. CONTENT_CAP + MaxOver)

SynthesisLens == SYNTHESIS_CAP - 1 .. SYNTHESIS_CAP + MaxOver

Stage1Entries ==
    { [model |-> m, content |-> Text(n)] :
        m \in {"model-a", "model-b"}, n \in ContentLens }
    \cup { [model |-> "model-a"] }

Stage1Lists ==
    UNION { [1..n -> Stage1Entries] : n \in 0..MaxModels }

Stage2Values == { EmptyDict, [aggregate |-> [top |-> "model-a"]] }

Stage3Values ==
    { [chairman |-> "model-b"] } \cup
    { [synthesis |-> Text(n), chairman |-> "model-b"] : n \in SynthesisLens }

ConsensusValues == { [level |-> "strong"] }

\* Every dict over the optional keys: each key absent, or present with one
\* of its values.
OptionalKey(key, values) ==
    { EmptyDict } \cup { [k \in {key} |-> v] : v \in values }

RawOutputs ==
    { t @@ a @@ b @@ c @@ d :
        t \in OptionalKey("tier", {"standard"}),
        a \in OptionalKey("stage1", Stage1Lists),
        b \in OptionalKey("stage2", Stage2Values),
        c \in OptionalKey("stage3", Stage3Values),
        d \in OptionalKey("consensus", ConsensusValues) }

SanInit ==
    /\ san_in \in [result : RawOutputs, mode : ApiModes]
    /\ san_out = NoValue
    /\ OPENROUTER_API_KEY = PyNone
    /\ entry = "api"
    /\ args = NoValue
    /\ pc = "sanitize"
    /\ tasks = << >>
    /\ i = 0
    /\ results = << >>
    /\ start_time = 0
    /\ inflight = {}
    /\ calls = << >>
    /\ outcomes = << >>
    /\ clock = 0
    /\ ret = NoValue
    /\ raised = PyNone
    /\ files = EmptyDict
    /\ saved = << >>

\* one call of sanitize_result(result, mode)
SanitizeCall ==
    /\ pc = "sanitize"
    /\ san_out = NoValue
    /\ san_out' = sanitize_result(san_in.result, san_in.mode)
    /\ UNCHANGED << san_in, suite_vars >>

SanNext == SanitizeCall

SpecSanitize == SanInit /\ [][SanNext]_vars

-----------------------------------------------------------------------------
(* save_eval_results on its own: several runs saved into one directory *)

MaxSaves == 2     \* save_eval_results invocations considered

SaveTiers == {"standard", "budget"}

SaveModes == {"quick", "full"}

\* time passing between two saves, in hundredths of a second
SaveGaps == {0, 50, 100}

\* the EvalRun of a run over the first task of the catalog, whose call
\* raised after el hundredths of a second
OneTaskRun(t, m, el, now) ==
    LET rs == << FailureResult(EVAL_TASKS[1], t, m, el,
                               Exc("RuntimeError", << "boom" >>)) >>
    IN  EvalRun([tier |-> t, mode |-> m, category |-> PyNone],
                summary_of(<< EVAL_TASKS[1] >>, rs), rs, now, PyNone)

\* The values handed to save_eval_results at time now: the EvalRun of a
\* one-task run that ended at now, or an error-shaped value of
\* run_eval_suite.
SaveInputs(now) ==
    { OneTaskRun(t, m, el, now) :
        t \in SaveTiers, m \in SaveModes, el \in {75, 150} }
    \cup { ErrorResult }

SaveInit ==
    /\ pc = "save"
    /\ files = EmptyDict
    /\ saved = << >>
    /\ clock = 0
    /\ OPENROUTER_API_KEY = PyNone
    /\ entry = "api"
    /\ args = NoValue
    /\ tasks = << >>
    /\ i = 0
    /\ results = << >>
    /\ start_time = 0
    /\ inflight = {}
    /\ calls = << >>
    /\ outcomes = << >>
    /\ ret = NoValue
    /\ raised = PyNone
    /\ SanIdle

\* one call of save_eval_results(eval_data, "evals")
SaveCall ==
    /\ pc = "save"
    /\ Len(saved) < MaxSaves
    /\ \E gap \in SaveGaps :
         \E eval_data \in SaveInputs(clock + gap) :
            /\ clock' = clock + gap
            /\ files' = save_eval_results(files, eval_data, "evals", clock + gap)
            /\ saved' = Append(saved, SaveRecord(eval_data, "evals", clock + gap))
    /\ UNCHANGED << OPENROUTER_API_KEY, entry, args, pc, tasks, i, results,
                    start_time, inflight, calls, outcomes, ret, raised,
                    san_in, san_out >>

SaveNext == SaveCall

SpecSave == SaveInit /\ [][SaveNext]_vars

-----------------------------------------------------------------------------
(* Properties *)

Returned == pc \in {"returned", "exit"}

ReturnedRun == Returned /\ "summary" \in DOMAIN ret

\* The task list a run selects, from its arguments.
Selected ==
    filter_by_category(resolve_tasks(args.tasks, EVAL_TASKS), args.category)

\* C1: a council call that raises becomes the failure EvalResult of its own
\* task and nothing leaves run_eval_suite as an exception; with a non-empty
\* selection every task is executed and an EvalRun with a summary is returned.
C1_FailureIsolation ==
    /\ pc # "raised"
    /\ raised = PyNone
    /\ \A j \in 1..Len(outcomes) :
         outcomes[j].kind = "raise" =>
            /\ j <= Len(results)
            /\ results[j].success = FALSE
            /\ results[j].task_id = tasks[j].id
    /\ (Returned /\ Len(Selected) > 0) =>
            /\ ReturnedRun
            /\ Len(calls) = Len(Selected)
            /\ Len(ret.results) = Len(Selected)

\* a run has returned in which an early call raised and a later task ran and
\* succeeded
C1_Witness ==
    /\ ReturnedRun
    /\ \E j \in 1..Len(outcomes) : \E k \in 1..Len(ret.results) :
         /\ j < k
         /\ outcomes[j].kind = "raise"
         /\ ret.results[k].success

\* C2: a returned EvalRun holds one EvalResult per selected task, in the order
\* of the filtered list.
C2_ResultsInTaskOrder ==
    ReturnedRun =>
        /\ Len(ret.results) = Len(Selected)
        /\ \A j \in 1..Len(Selected) :
             ret.results[j].task_id = Selected[j].id

\* a returned run over at least two different tasks, with a failure followed
\* by a success
C2_Witness ==
    /\ ReturnedRun
    /\ Len(ret.results) >= 2
    /\ ret.results[1].task_id # ret.results[2].task_id
    /\ ~ret.results[1].success
    /\ ret.results[2].success

\* C3: at most one council call is in flight, and every call started earlier
\* has completed and has its EvalResult appended.
C3_OneCallInFlight ==
    /\ Cardinality(inflight) <= 1
    /\ Len(calls) = Len(results) + Cardinality(inflight)
    /\ \A c \in inflight : c = Len(results) + 1

\* the second call of a run is in flight
C3_Witness ==
    /\ pc = "awaiting"
    /\ inflight = {2}
    /\ Len(results) = 1

\* C4: one council invocation per executed task, none repeated after a
\* failure, made through the function the mode selects and with the task's
\* question; a returned run over n tasks has made n invocations.
C4_OneInvocationPerTask ==
    /\ Len(calls) = Len(outcomes) + (IF pc = "awaiting" THEN 1 ELSE 0)
    /\ \A j \in 1..Len(calls) :
         /\ j <= Len(Selected)
         /\ calls[j].question = Selected[j].question
         /\ args.mode = "quick" => calls[j].fn = "run_council_quick"
         /\ args.mode = "ranked" => calls[j].fn = "run_council_ranked"
         /\ args.mode = "full" => calls[j].fn = "run_council_full"
    /\ ReturnedRun => Len(calls) = Len(Selected)

\* a ranked run over several tasks has returned after a failed call
C4_Witness ==
    /\ ReturnedRun
    /\ args.mode = "ranked"
    /\ Len(calls) >= 2
    /\ outcomes[1].kind = "raise"

\* the category filter is applied and leaves nothing of a non-empty list
FilterMatchesNothing ==
    /\ args.category \notin {PyNone, ""}
    /\ \A j \in 1..Len(resolve_tasks(args.tasks, EVAL_TASKS)) :
         resolve_tasks(args.tasks, EVAL_TASKS)[j].category # args.category

\* C5: when the category filter matches no task, run_eval_suite returns the
\* error-shaped value, raises nothing and makes no council invocation.
C5_EmptySelection ==
    (pc # "start" /\ FilterMatchesNothing) =>
        /\ Returned
        /\ ret = ErrorResult
        /\ ret.error = "No tasks match the specified criteria"
        /\ raised = PyNone
        /\ calls = << >>
        /\ results = << >>

\* the filter removed every task of a non-empty list and the run has returned
C5_Witness ==
    /\ Returned
    /\ FilterMatchesNothing
    /\ Len(resolve_tasks(args.tasks, EVAL_TASKS)) > 0
    /\ ret = ErrorResult

\* Every category the command line accepts has tasks in the catalog, so
\* main is never handed the empty-selection error result.
MainSelectsTasks == (entry = "main" /\ Returned) => ret # ErrorResult

\* C7: a failure EvalResult has success = false, a non-empty error and no
\* result; a success EvalResult has a result and no error.
C7_ResultShape ==
    \A j \in 1..Len(results) :
        IF results[j].success
        THEN /\ "result" \in DOMAIN results[j]
             /\ "error" \notin DOMAIN results[j]
        ELSE /\ "error" \in DOMAIN results[j]
             /\ results[j].error # ""
             /\ "result" \notin DOMAIN results[j]

\* C8: in a returned EvalRun, successful + failed = total_tasks = number of
\* results, successful counts the results with success = true and failed
\* those with success = false.
C8_SummaryPartition ==
    ReturnedRun =>
        LET s == ret.summary
            rs == ret.results
        IN  /\ s.successful + s.failed = s.total_tasks
            /\ s.total_tasks = Len(rs)
            /\ s.successful = Cardinality({ j \in 1..Len(rs) : rs[j].success })
            /\ s.failed = Cardinality({ j \in 1..Len(rs) : ~rs[j].success })

\* a returned run with both successes and failures
C8_Witness ==
    /\ ReturnedRun
    /\ ret.summary.successful >= 1
    /\ ret.summary.failed >= 1

\* sanitize_result has been called and has returned a dict
Sanitized == pc = "sanitize" /\ san_out # NoValue /\ ~IsRaise(san_out)

\* a stage1 entry of the raw output lacks its model or its content
MalformedStage1 ==
    /\ "stage1" \in DOMAIN san_in.result
    /\ \E j \in 1..Len(san_in.result.stage1) :
         {"model", "content"} \ DOMAIN san_in.result.stage1[j] # {}

\* C9: rankings is emitted exactly when the mode is ranked or full and stage2
\* is present; synthesis, chairman and consensus exactly when the mode is full
\* and stage3 is present; a missing stage never makes the function fail.
C9_StageGating ==
    (pc = "sanitize" /\ san_out # NoValue) =>
        /\ IsRaise(san_out) => MalformedStage1
        /\ ~IsRaise(san_out) =>
             /\ "rankings" \in DOMAIN san_out <=>
                   ( /\ san_in.mode \in {"ranked", "full"}
                     /\ "stage2" \in DOMAIN san_in.result )
             /\ \A k \in {"synthesis", "chairman", "consensus"} :
                   k \in DOMAIN san_out <=>
                      ( /\ san_in.mode = "full"
                        /\ "stage3" \in DOMAIN san_in.result )
             /\ san_in.mode = "quick" =>
                   DOMAIN san_out \cap
                     {"rankings", "synthesis", "chairman", "consensus"} = {}
             /\ DOMAIN san_in.result \subseteq {"tier", "stage1"} =>
                   DOMAIN san_out \cap {"rankings", "synthesis"} = {}

\* a quick-mode call on a raw output that has every stage returned only the
\* tier, the count and the responses
C9_Witness ==
    /\ Sanitized
    /\ san_in.mode = "quick"
    /\ {"stage1", "stage2", "stage3", "consensus"} \subseteq DOMAIN san_in.result
    /\ DOMAIN san_out = {"tier", "models_queried", "responses"}

\* C10: one responses entry per stage1 entry, same order and model, content
\* cut to the first min(L, 2000) characters; models_queried counts the stage1
\* entries; an emitted synthesis is the first min(L, 3000) characters.
C10_Truncation ==
    Sanitized =>
        LET raw == san_in.result
            stage1 == IF "stage1" \in DOMAIN raw THEN raw.stage1 ELSE << >>
        IN  /\ san_out.models_queried = Len(stage1)
            /\ "stage1" \in DOMAIN raw =>
                 /\ Len(san_out.responses) = Len(stage1)
                 /\ \A j \in 1..Len(stage1) :
                      LET L == Len(stage1[j].content)
                          n == IF L <= 2000 THEN L ELSE 2000
                      IN  /\ san_out.responses[j].model = stage1[j].model
                          /\ Len(san_out.responses[j].content) = n
                          /\ san_out.responses[j].content =
                                SubSeq(stage1[j].content, 1, n)
            /\ ("synthesis" \in DOMAIN san_out
                  /\ "synthesis" \in DOMAIN raw.stage3) =>
                 LET L == Len(raw.stage3.synthesis)
                     n == IF L <= 3000 THEN L ELSE 3000
                 IN  /\ Len(san_out.synthesis) = n
                     /\ san_out.synthesis = SubSeq(raw.stage3.synthesis, 1, n)

\* an over-long content and an over-long synthesis were both cut, next to a
\* short content of another model
C10_Witness ==
    /\ Sanitized
    /\ "synthesis" \in DOMAIN san_out
    /\ "synthesis" \in DOMAIN san_in.result.stage3
    /\ Len(san_in.result.stage3.synthesis) > 3000
    /\ Len(san_out.synthesis) = 3000
    /\ "responses" \in DOMAIN san_out
    /\ Len(san_out.responses) = 2
    /\ san_out.responses[1].model # san_out.responses[2].model
    /\ Len(san_in.result.stage1[1].content) > 2000
    /\ Len(san_out.responses[1].content) = 2000
    /\ Len(san_in.result.stage1[2].content) < 2000

\* C11: the task list is the explicit tasks argument whenever one is given
\* and the catalog only when none is; the category filter applies to that
\* list.  So the tasks executed come from a given list, and a given list that
\* resolves to empty yields the empty-selection error with no executions.
C11_ExplicitTasksResolved ==
    pc \notin {"start", "exit1"} =>
        IF args.tasks.given
        THEN /\ tasks = filter_by_category(args.tasks.list, args.category)
             /\ \A j \in 1..Len(calls) :
                  \E k \in 1..Len(args.tasks.list) :
                     calls[j].question = args.tasks.list[k].question
             /\ filter_by_category(args.tasks.list, args.category) = << >> =>
                  /\ ret = ErrorResult
                  /\ calls = << >>
        ELSE tasks = filter_by_category(EVAL_TASKS, args.category)

\* C12: any two invocations of save_eval_results return different paths, so
\* no save overwrites the file of another run and every run has a file of its
\* own.
C12_DistinctFiles ==
    pc = "save" =>
        /\ \A a \in 1..Len(saved) : \A b \in 1..Len(saved) :
             a # b => saved[a].path # saved[b].path
        /\ Cardinality(DOMAIN files) = Len(saved)
        /\ \A a \in 1..Len(saved) : files[saved[a].path] = saved[a].data

====
